---------------------------- MODULE Spec2Model ----------------------------
(***************************************************************************)
(* State-machine model of the SimulationInterface component               *)
(* (src/components/hero.tsx, lines 111-921): the React state of the       *)
(* component, the mount effect and fetchData, the year and model inputs,   *)
(* handleSimulation with the three prediction models, the plausibility     *)
(* guard and generatePredictionLine.                                       *)
(*                                                                         *)
(* JavaScript numbers are modelled as fixed-point values with three        *)
(* decimal digits plus the three non-finite values NaN, Infinity and       *)
(* -Infinity, with the propagation rules of IEEE arithmetic (negative      *)
(* zero is not distinguished from zero).  Strings are sequences of         *)
(* one-character strings, so that parseInt and Number.toString are         *)
(* computed and not assumed.                                               *)
(***************************************************************************)
EXTENDS Integers, Sequences, FiniteSets

\* ------------------------------------------------------------------------
\* Bounds of the model
\* ------------------------------------------------------------------------

\* the last calendar year the clock is advanced to
MaxNow == 2025

\* ------------------------------------------------------------------------
\* JavaScript numbers
\* ------------------------------------------------------------------------

\* fixed-point scale: three decimal digits
SCALE == 10 * 10 * 10

Fin(v) == [k |-> "fin", v |-> v]

NaN == [k |-> "nan", v |-> 0]

PosInf == [k |-> "inf", v |-> 1]

NegInf == [k |-> "inf", v |-> -1]

\* the number n (an integer) as a JavaScript number
Num(n) == Fin(n * SCALE)

IsFin(x) == x.k = "fin"

IsNaN(x) == x.k = "nan"

IsInf(x) == x.k = "inf"

Abs(n) == IF n < 0 THEN -n ELSE n

Sgn(n) == IF n < 0 THEN -1 ELSE IF n > 0 THEN 1 ELSE 0

Inf(s) == IF s < 0 THEN NegInf ELSE PosInf

\* a / b rounded to the nearest integer (b # 0), half away from zero
RDiv(a, b) == Sgn(a) * Sgn(b) * ((2 * Abs(a) + Abs(b)) \div (2 * Abs(b)))

Neg(x) == IF IsNaN(x) THEN NaN ELSE [k |-> x.k, v |-> -x.v]

Add(x, y) ==
    IF IsNaN(x) \/ IsNaN(y) THEN NaN
    ELSE IF IsFin(x) /\ IsFin(y) THEN Fin(x.v + y.v)
    ELSE IF IsInf(x) /\ IsInf(y) THEN (IF x.v = y.v THEN x ELSE NaN)
    ELSE IF IsInf(x) THEN x ELSE y

Sub(x, y) == Add(x, Neg(y))

Mul(x, y) ==
    IF IsNaN(x) \/ IsNaN(y) THEN NaN
    ELSE IF IsFin(x) /\ IsFin(y) THEN Fin(RDiv(x.v * y.v, SCALE))
    ELSE IF x.v = 0 \/ y.v = 0 THEN NaN
    ELSE Inf(Sgn(x.v) * Sgn(y.v))

Div(x, y) ==
    IF IsNaN(x) \/ IsNaN(y) THEN NaN
    ELSE IF IsInf(x) /\ IsInf(y) THEN NaN
    ELSE IF IsInf(x) THEN Inf(x.v * (IF y.v < 0 THEN -1 ELSE 1))
    ELSE IF IsInf(y) THEN Fin(0)
    ELSE IF y.v = 0 THEN (IF x.v = 0 THEN NaN ELSE Inf(x.v))
    ELSE Fin(RDiv(x.v * SCALE, y.v))

\* Math.pow(x, 2) inside a sum of squares: kept at the scale SCALE * SCALE,
\* so that small deviations do not vanish; such sums are only ever divided
\* by one another, which Div does at any common scale
Sq(x) ==
    IF IsNaN(x) THEN NaN ELSE IF IsInf(x) THEN PosInf ELSE Fin(x.v * x.v)

\* x < y of JavaScript: false as soon as one side is NaN
Lt(x, y) ==
    IF IsNaN(x) \/ IsNaN(y) THEN FALSE
    ELSE IF IsFin(x) /\ IsFin(y) THEN x.v < y.v
    ELSE IF IsInf(x) /\ IsInf(y) THEN x.v < y.v
    ELSE IF IsInf(x) THEN x.v < 0
    ELSE y.v > 0

Gt(x, y) == Lt(y, x)

\* x <= y of JavaScript
Le(x, y) == ~IsNaN(x) /\ ~IsNaN(y) /\ ~Lt(y, x)

\* Math.max(x, y) and Math.min(x, y): NaN as soon as one argument is NaN
MathMax(x, y) == IF IsNaN(x) \/ IsNaN(y) THEN NaN ELSE IF Lt(x, y) THEN y ELSE x

MathMin(x, y) == IF IsNaN(x) \/ IsNaN(y) THEN NaN ELSE IF Lt(y, x) THEN y ELSE x

\* Math.ceil on a finite fixed-point value, NaN and the infinities unchanged
MathCeil(x) ==
    IF ~IsFin(x) THEN x
    ELSE Fin(SCALE * (IF x.v % SCALE = 0 THEN x.v \div SCALE
                                         ELSE (x.v \div SCALE) + 1))

\* Math.pow(k / 50, 0.8) for k = 0 .. 100, to three decimals
Pow08Table ==
  << 0, 44, 76, 105, 133, 158, 183, 207, 231, 254, 276, 298,
     319, 340, 361, 382, 402, 422, 442, 461, 480, 500, 519, 537,
     556, 574, 593, 611, 629, 647, 665, 682, 700, 717, 735, 752,
     769, 786, 803, 820, 837, 853, 870, 886, 903, 919, 935, 952,
     968, 984, 1000, 1016, 1032, 1048, 1064, 1079, 1095, 1111, 1126, 1142,
     1157, 1172, 1188, 1203, 1218, 1234, 1249, 1264, 1279, 1294, 1309, 1324,
     1339, 1354, 1368, 1383, 1398, 1413, 1427, 1442, 1456, 1471, 1486, 1500,
     1514, 1529, 1543, 1558, 1572, 1586, 1600, 1615, 1629, 1643, 1657, 1671,
     1685, 1699, 1713, 1727, 1741 >>

\* Math.pow(k / 61, 0.7) for k = 0 .. 100, to three decimals
Pow07Table ==
  << 0, 56, 91, 121, 148, 174, 197, 220, 241, 262, 282, 301,
     320, 339, 357, 375, 392, 409, 426, 442, 458, 474, 490, 505,
     520, 536, 550, 565, 580, 594, 608, 623, 637, 650, 664, 678,
     691, 705, 718, 731, 744, 757, 770, 783, 796, 808, 821, 833,
     846, 858, 870, 882, 894, 906, 918, 930, 942, 954, 965, 977,
     988, 1000, 1011, 1023, 1034, 1045, 1057, 1068, 1079, 1090, 1101, 1112,
     1123, 1134, 1145, 1156, 1166, 1177, 1188, 1198, 1209, 1220, 1230, 1241,
     1251, 1261, 1272, 1282, 1292, 1303, 1313, 1323, 1333, 1343, 1354, 1364,
     1374, 1384, 1394, 1404, 1413 >>

\* Math.pow(num / den, e) for a fractional exponent e (0.8 with den = 50,
\* 0.7 with den = 61) and integer-valued num, den: NaN for a negative base,
\* the tabulated value otherwise (the base sits at index num of the table)
MathPow(num, den, table) ==
    LET x == Div(num, den) IN
    IF IsNaN(x) THEN NaN
    ELSE IF IsInf(x) THEN (IF x.v > 0 THEN PosInf ELSE NaN)
    ELSE IF x.v < 0 THEN NaN
    ELSE Fin(table[RDiv(num.v, SCALE) + 1])

\* ------------------------------------------------------------------------
\* JavaScript strings: sequences of one-character strings
\* ------------------------------------------------------------------------

Digits == <<"0", "1", "2", "3", "4", "5", "6", "7", "8", "9">>

IsDigit(c) == \E i \in 1..10 : Digits[i] = c

DigitVal(c) == (CHOOSE i \in 1..10 : Digits[i] = c) - 1

\* the longest prefix of s made of digits
DigitPrefix(s) ==
    IF \A i \in 1..Len(s) : IsDigit(s[i]) THEN s
    ELSE SubSeq(s, 1, (CHOOSE i \in 1..Len(s) :
                          ~IsDigit(s[i]) /\ \A j \in 1..(i - 1) : IsDigit(s[j])) - 1)

RECURSIVE DigitsValue(_, _)
DigitsValue(s, acc) ==
    IF s = <<>> THEN acc ELSE DigitsValue(Tail(s), 10 * acc + DigitVal(Head(s)))

RECURSIVE SkipSpaces(_)
SkipSpaces(s) == IF s # <<>> /\ Head(s) = " " THEN SkipSpaces(Tail(s)) ELSE s

\* s without its leading zeros
RECURSIVE StripZeros(_)
StripZeros(s) == IF s # <<>> /\ Head(s) = "0" THEN StripZeros(Tail(s)) ELSE s

\* number of decimal digits of the largest finite number (about 1.8e308)
MaxDoubleDigits == 309

\* parseInt(s): leading blanks, an optional sign, then the digits up to the
\* first other character; NaN when there is no digit; an integer of more
\* digits than the largest finite number has is Infinity
ParseInt(s) ==
    LET t    == SkipSpaces(s)
        neg  == t # <<>> /\ Head(t) = "-"
        u    == IF t # <<>> /\ Head(t) \in {"-", "+"} THEN Tail(t) ELSE t
        d    == DigitPrefix(u)
    IN  IF d = <<>> THEN NaN
        ELSE IF Len(StripZeros(d)) > MaxDoubleDigits
        THEN (IF neg THEN NegInf ELSE PosInf)
        ELSE Num((IF neg THEN -1 ELSE 1) * DigitsValue(d, 0))

RECURSIVE NatToString(_)
NatToString(n) ==
    IF n < 10 THEN <<Digits[n + 1]>>
    ELSE NatToString(n \div 10) \o <<Digits[(n % 10) + 1]>>

\* Number.prototype.toString of an integer-valued number
ToString(x) ==
    IF IsNaN(x) THEN <<"N", "a", "N">>
    ELSE IF IsInf(x) THEN (IF x.v < 0 THEN <<"-">> ELSE <<>>)
                          \o <<"I", "n", "f", "i", "n", "i", "t", "y">>
    ELSE IF x.v < 0 THEN <<"-">> \o NatToString((-x.v) \div SCALE)
    ELSE NatToString(x.v \div SCALE)

\* ------------------------------------------------------------------------
\* Data
\* ------------------------------------------------------------------------

\* TemperatureData
Row(y, mean, smooth) ==
    [year |-> ToString(Num(y)), annual_mean |-> Fin(mean),
     five_year_smooth |-> Fin(smooth)]

\* number of records of the bundled sample data
MockLen == 32

\* last year of the bundled sample data (chart title: 1901-2022)
MockLastYear == 2022

\* mockTemperatureData of @/utils/temp-data: a non-empty series ending in
\* 2022, five-year smooth rising by 0.01 a year, annual mean around it
mockTemperatureData ==
    [i \in 1..MockLen |->
        Row(MockLastYear - MockLen + i, 26000 + 10 * i + 100 * ((i % 3) - 1),
            26000 + 10 * i)]

\* data.slice(-n)
SliceLast(seq, n) ==
    IF Len(seq) <= n THEN seq ELSE SubSeq(seq, Len(seq) - n + 1, Len(seq))

\* ------------------------------------------------------------------------
\* State
\* ------------------------------------------------------------------------

VARIABLES
    data,            \* useState<TemperatureData[]>([])
    selectedModel,   \* useState<ModelType>("polynomial")
    yearToPredict,   \* useState<string>("2030")
    result,          \* <<>> for null, <<r>> for an outcome r
    loading,         \* useState(false)
    predictionLine,  \* [years, temps]
    isLoading,       \* useState(true)
    error,           \* <<>> for null
    userInitiated,   \* useState(false)
    fetchState,      \* "unmounted", "pending" (at the await), "done"
    now,             \* the calendar year new Date().getFullYear() returns
    fit,             \* what the regression library returns for `data`
    lastRun,         \* what the latest handleSimulation run did
    invoked,         \* the last two direct invocations of a model
    fetched,         \* <<>>, or <<o>> for the answer o fetchData received
    drawn            \* <<>>, or <<c>> for the last direct call c of
                     \* generatePredictionLine

vars == <<data, selectedModel, yearToPredict, result, loading, predictionLine,
          isLoading, error, userInitiated, fetchState, now, fit, lastRun,
          invoked, fetched, drawn>>

ModelType == {"polynomial", "moving-average", "linear"}

\* first year predictions are offered for
MinYear == 2024

\* last year the year input offers (max="2100")
MaxYear == 2100

\* ------------------------------------------------------------------------
\* The regression library (npm package "regression", declared in
\* src/unnamed/part_004): an external, deterministic function of the points.
\* Its answer for the series currently held is the variable `fit`, drawn by
\* the environment when the series is set.
\* ------------------------------------------------------------------------

\* Result of regression.polynomial(points, {order: 2}): equation [a, b, c]
PolyResult(a, b, c, r2, throws) ==
    [equation |-> <<a, b, c>>, r2 |-> r2, throws |-> throws]

\* Result of regression.linear(points): equation [slope, intercept]
LinearResult(m, c, r2, throws) ==
    [equation |-> <<m, c>>, r2 |-> r2, throws |-> throws]

\* result.predict(x)[1]: the fitted polynomial at x
RECURSIVE Horner(_, _, _)
Horner(eq, x, acc) ==
    IF eq = <<>> THEN acc ELSE Horner(Tail(eq), x, Add(Mul(acc, x), Head(eq)))

Predict(res, x) == Horner(Tail(res.equation), x, Head(res.equation))

\* ------------------------------------------------------------------------
\* Prediction models
\* ------------------------------------------------------------------------

\* confidence decay constants
maxConfidentYears == 15

maxPredictionYears == 76

\* mutant: the decay multiplier floors at 0.2
ConfidenceMultiplierFloor02(yearsIntoFuture) ==
    IF Gt(yearsIntoFuture, Num(maxConfidentYears))
    THEN LET decay == MathPow(Sub(yearsIntoFuture, Num(maxConfidentYears)),
                              Num(maxPredictionYears - maxConfidentYears),
                              Pow07Table)
         IN  MathMax(Fin(200), Sub(Num(1), Mul(decay, Fin(750))))
    ELSE Num(1)

\* the decay multiplier of the polynomial and linear models
ConfidenceMultiplier(yearsIntoFuture) ==
    IF Gt(yearsIntoFuture, Num(maxConfidentYears))
    THEN LET decay == MathPow(Sub(yearsIntoFuture, Num(maxConfidentYears)),
                              Num(maxPredictionYears - maxConfidentYears),
                              Pow07Table)
         IN  MathMax(Fin(250), Sub(Num(1), Mul(decay, Fin(750))))
    ELSE Num(1)

\* a model's return value; ran is FALSE on the early return for an empty
\* series, threw is TRUE when the library call throws
ModelReturn(prediction, r2, ran, threw) ==
    [prediction |-> prediction, r2 |-> r2, ran |-> ran, threw |-> threw]

EmptyReturn == ModelReturn(Num(0), Num(0), FALSE, FALSE)

Thrown == ModelReturn(NaN, NaN, TRUE, TRUE)

\* 1 - ((1 - r2) * (n - 1)) / (n - p - 1) with p = 2
AdjustedR2(r2, n) ==
    Sub(Num(1), Div(Mul(Sub(Num(1), r2), Num(n - 1)), Num(n - 2 - 1)))

\* Math.max(0.2, 1 - Math.pow(yearsIntoFuture / 50, 0.8))
DampeningFactor(yearsIntoFuture) ==
    MathMax(Fin(200), Sub(Num(1), MathPow(yearsIntoFuture, Num(50), Pow08Table)))

calculatePolynomialRegression(targetYear, d, f, clock) ==
    IF Len(d) = 0 THEN EmptyReturn
    ELSE IF f.polynomial.throws THEN Thrown
    ELSE
    LET recentData       == SliceLast(d, 30)
        baseYear         == ParseInt(recentData[1].year)
        res              == f.polynomial
        normalizedYear   == Sub(ParseInt(targetYear), baseYear)
        yearsIntoFuture  == Sub(ParseInt(targetYear), Num(clock))
        dampeningFactor  == DampeningFactor(yearsIntoFuture)
        rawPrediction    == Predict(res, normalizedYear)
        lastKnownTemp    == recentData[Len(recentData)].five_year_smooth
        predictedChange  == Sub(rawPrediction, lastKnownTemp)
        adjustmentFactor ==
            IF Gt(predictedChange, Num(0))
            THEN MathMax(Fin(300), Sub(Num(1), Div(predictedChange, Num(10))))
            ELSE MathMin(Fin(1700), Sub(Num(1), Div(predictedChange, Num(10))))
        dampedChange     == Mul(Mul(predictedChange, dampeningFactor),
                                adjustmentFactor)
        prediction       == Add(lastKnownTemp, dampedChange)
        baseR2           == AdjustedR2(res.r2, Len(recentData))
        adjustedR2       == Mul(baseR2, ConfidenceMultiplier(yearsIntoFuture))
    IN  ModelReturn(prediction, adjustedR2, TRUE, FALSE)

\* sum of f(i) over i in 1..n
RECURSIVE SumTo(_, _)
SumTo(f, n) == IF n = 0 THEN Num(0) ELSE Add(SumTo(f, n - 1), f[n])

\* mutant: the confidence decays with the years ahead
MovingAverageDecayed(targetYear, d, lastYear) ==
    LET recentData   == SliceLast(d, 5)
        n            == Len(recentData)
        smooth       == [i \in 1..n |-> recentData[i].five_year_smooth]
        avgTemp      == Div(SumTo(smooth, n), Num(n))
        yearlyChange == Div(Sub(smooth[n], smooth[1]), Num(4))
        yearsAhead   == Sub(ParseInt(targetYear), lastYear)
    IN  ModelReturn(Add(avgTemp, Mul(yearlyChange, yearsAhead)),
                    ConfidenceMultiplier(yearsAhead), TRUE, FALSE)

\* mutant: the yearly change is taken over five intervals
MovingAverageOverFive(targetYear, d, lastYear) ==
    LET recentData   == SliceLast(d, 5)
        n            == Len(recentData)
        smooth       == [i \in 1..n |-> recentData[i].five_year_smooth]
        avgTemp      == Div(SumTo(smooth, n), Num(n))
        yearlyChange == Div(Sub(smooth[n], smooth[1]), Num(5))
        yearsAhead   == Sub(ParseInt(targetYear), lastYear)
    IN  ModelReturn(Add(avgTemp, Mul(yearlyChange, yearsAhead)), Num(1),
                    TRUE, FALSE)

\* calculateMovingAverage on a non-empty series, the year the projection
\* starts from being lastYear
MovingAverageFrom(targetYear, d, lastYear) ==
    LET recentData   == SliceLast(d, 5)
        n            == Len(recentData)
        smooth       == [i \in 1..n |-> recentData[i].five_year_smooth]
        avgTemp      == Div(SumTo(smooth, n), Num(n))
        yearlyChange == Div(Sub(smooth[n], smooth[1]), Num(4))
        yearsAhead   == Sub(ParseInt(targetYear), lastYear)
        prediction   == Add(avgTemp, Mul(yearlyChange, yearsAhead))
        startTemp    == smooth[1]
        predicted    == [i \in 1..n |->
                            Add(startTemp, Mul(yearlyChange, Num(i - 1)))]
        meanActual   == Div(SumTo(smooth, n), Num(n))
        ssTotal      == SumTo([i \in 1..n |-> Sq(Sub(smooth[i], meanActual))], n)
        ssResidual   == SumTo([i \in 1..n |-> Sq(Sub(smooth[i], predicted[i]))], n)
        r2           == MathMax(Num(0),
                            MathMin(Num(1), Sub(Num(1), Div(ssResidual, ssTotal))))
    IN  ModelReturn(prediction, r2, TRUE, FALSE)

\* mutant: the years ahead are counted from the calendar year, not from
\* the last year of the series
calculateMovingAverageFromNow(targetYear, d, f, clock) ==
    IF Len(d) = 0 THEN EmptyReturn
    ELSE MovingAverageFrom(targetYear, d, Num(clock))

calculateMovingAverage(targetYear, d, f, clock) ==
    IF Len(d) = 0 THEN EmptyReturn
    ELSE MovingAverageFrom(targetYear, d, ParseInt(d[Len(d)].year))

calculateLinearRegression(targetYear, d, f, clock) ==
    IF Len(d) = 0 THEN EmptyReturn
    ELSE IF f.linear.throws THEN Thrown
    ELSE
    LET baseYear        == ParseInt(d[1].year)
        res             == f.linear
        normalizedYear  == Sub(ParseInt(targetYear), baseYear)
        prediction      == Predict(res, normalizedYear)
        yearsIntoFuture == Sub(ParseInt(targetYear), Num(clock))
        adjustedR2      == Mul(res.r2, ConfidenceMultiplier(yearsIntoFuture))
    IN  ModelReturn(prediction, adjustedR2, TRUE, FALSE)

\* the dispatch on the model tag made by handleSimulation and by
\* generatePredictionLine
CallModel(modelType, targetYear, d, f, clock) ==
    IF modelType = "polynomial"
    THEN calculatePolynomialRegression(targetYear, d, f, clock)
    ELSE IF modelType = "linear"
    THEN calculateLinearRegression(targetYear, d, f, clock)
    ELSE calculateMovingAverage(targetYear, d, f, clock)

\* ------------------------------------------------------------------------
\* Trend line
\* ------------------------------------------------------------------------

\* one model invocation, as the run log keeps it
Call(modelType, targetYear, d, clock, ret) ==
    [model |-> modelType, year |-> ParseInt(targetYear), len |-> Len(d),
     clock |-> clock, prediction |-> ret.prediction, r2 |-> ret.r2]

\* one iteration of the for loop of generatePredictionLine: the year and
\* the temperature pushed for the model's answer ret at currentYear
LineStep(acc, currentYear, ret, predictionTemp, modelType, d, env) ==
    [years |-> Append(acc.years, currentYear),
     temps |-> Append(acc.temps,
                      IF IsNaN(ret.prediction) THEN predictionTemp
                                               ELSE ret.prediction),
     calls |-> acc.calls \cup {Call(modelType, currentYear, d, env.clock, ret)},
     threw |-> ret.threw, hangs |-> FALSE]

\* the for loop of generatePredictionLine from `year` on; acc holds the
\* years and temps pushed so far and the model invocations made
RECURSIVE LineLoop(_, _, _, _, _, _, _, _)

\* the loop after the iteration at `year` pushed its point (acc): when
\* year += yearStep leaves year as it is, every later iteration is this one
\* again and the loop never ends
LineLoopOn(year, yearStep, predictionYear, predictionTemp, modelType, d, env, acc) ==
    IF acc.threw THEN acc
    ELSE IF Add(year, yearStep) = year THEN [acc EXCEPT !.hangs = TRUE]
    ELSE LineLoop(Add(year, yearStep), yearStep, predictionYear,
                  predictionTemp, modelType, d, env, acc)

LineLoop(year, yearStep, predictionYear, predictionTemp, modelType, d, env, acc) ==
    IF ~Le(year, predictionYear) \/ acc.threw THEN acc
    ELSE LineLoopOn(year, yearStep, predictionYear, predictionTemp,
                    modelType, d, env,
                    LineStep(acc, ToString(year),
                             CallModel(modelType, ToString(year), d, env.fit,
                                       env.clock),
                             predictionTemp, modelType, d, env))

\* numPoints of generatePredictionLine
numPoints == 5

\* mutant: the final point repeats the temperature before it
PushFinalLastTemp(acc, predictionYear, predictionTemp) ==
    [acc EXCEPT !.years = Append(@, ToString(predictionYear)),
                !.temps = Append(@, acc.temps[Len(acc.temps)])]

\* years.push(predictionYear.toString()); temps.push(predictionTemp)
PushFinal(acc, predictionYear, predictionTemp) ==
    [acc EXCEPT !.years = Append(@, ToString(predictionYear)),
                !.temps = Append(@, predictionTemp)]

\* mutant: the final point is never appended after the loop
LineEndNoAppend(looped, predictionYear, predictionTemp) == looped

\* after the loop: the final point is appended unless the loop ended on it
LineEnd(looped, predictionYear, predictionTemp) ==
    IF looped.threw \/ looped.hangs THEN looped
    ELSE IF looped.years[Len(looped.years)] # ToString(predictionYear)
    THEN PushFinal(looped, predictionYear, predictionTemp)
    ELSE looped

\* generatePredictionLine once the last data year, the prediction year and
\* the year step are known
LineFrom(lastDataYear, predictionYear, yearStep, predictionTemp, modelType, d, env) ==
    IF Le(yearStep, Num(0)) \/ Le(predictionYear, lastDataYear)
    THEN PushFinal([years |-> <<ToString(lastDataYear)>>,
                    temps |-> <<d[Len(d)].five_year_smooth>>,
                    calls |-> {}, threw |-> FALSE, hangs |-> FALSE],
                   predictionYear, predictionTemp)
    ELSE LineEnd(LineLoop(Add(lastDataYear, yearStep), yearStep,
                          predictionYear, predictionTemp, modelType, d, env,
                          [years |-> <<ToString(lastDataYear)>>,
                           temps |-> <<d[Len(d)].five_year_smooth>>,
                           calls |-> {}, threw |-> FALSE, hangs |-> FALSE]),
                 predictionYear, predictionTemp)

\* Math.ceil((predictionYear - lastDataYear) / numPoints)
YearStep(lastDataYear, predictionYear) ==
    MathCeil(Div(Sub(predictionYear, lastDataYear), Num(numPoints)))

generatePredictionLine(predictionTemp, modelType, d, ytp, env) ==
    IF Len(d) = 0
    THEN [years |-> <<>>, temps |-> <<>>, calls |-> {}, threw |-> FALSE, hangs |-> FALSE]
    ELSE LineFrom(ParseInt(d[Len(d)].year), ParseInt(ytp),
                  YearStep(ParseInt(d[Len(d)].year), ParseInt(ytp)),
                  predictionTemp, modelType, d, env)

\* ------------------------------------------------------------------------
\* handleSimulation
\* ------------------------------------------------------------------------

InvalidYearMsg == "Please select a year from 2024 onwards for predictions."

OutOfRangeMsg == "Prediction falls outside realistic range."

CalcErrorMsg == "Calculation error occurred"

\* the outcome object given to setResult; error is <<>> when absent
Outcome(prediction, details, err) ==
    [prediction |-> prediction, details |-> details, error |-> err]

ModelLine(modelType) ==
    IF modelType = "polynomial" THEN "Model: Polynomial Regression"
    ELSE IF modelType = "linear" THEN "Model: Linear Regression"
    ELSE "Model: 5-Year Moving Average"

\* Math.max(...xs) and Math.min(...xs): -Infinity and Infinity without
\* arguments, NaN as soon as one argument is NaN
MaxOf(xs) ==
    IF xs = <<>> THEN NegInf
    ELSE IF \E i \in 1..Len(xs) : IsNaN(xs[i]) THEN NaN
    ELSE xs[CHOOSE i \in 1..Len(xs) : \A j \in 1..Len(xs) : ~Lt(xs[i], xs[j])]

MinOf(xs) ==
    IF xs = <<>> THEN PosInf
    ELSE IF \E i \in 1..Len(xs) : IsNaN(xs[i]) THEN NaN
    ELSE xs[CHOOSE i \in 1..Len(xs) : \A j \in 1..Len(xs) : ~Lt(xs[j], xs[i])]

AnnualMeans(d) == [i \in 1..Len(d) |-> d[i].annual_mean]

\* baseMargin + Math.min(3, yearsIntoFuture / 20), baseMargin = 1.5
Margin(ytp, clock) ==
    LET yearsIntoFuture == Sub(ParseInt(ytp), Num(clock))
    IN  Add(Fin(1500), MathMin(Num(3), Div(yearsIntoFuture, Num(20))))

\* the test of the plausibility guard: TRUE when the prediction is rejected
OutOfRange(prediction, d, ytp, clock) ==
    LET allowedMin == Sub(MinOf(AnnualMeans(d)), Margin(ytp, clock))
        allowedMax == Add(MaxOf(AnnualMeans(d)), Margin(ytp, clock))
    IN  Lt(prediction, allowedMin) \/ Gt(prediction, allowedMax)

NoLine == [years |-> <<>>, temps |-> <<>>]

\* the record of a run: the model invocations it made (top: the one made by
\* handleSimulation itself), whether the guard and the trend-line generator
\* ran, whether a fault was caught, the inputs it read, the trend line the
\* generator returned (NoLine when it did not run or threw); by and moved
\* are filled in by the caller: what triggered the run ("click", "model",
\* "data") and, for a run triggered by a model switch, whether its target
\* year differs from the one of the run before it
RunLog(top, calls, guard, line, threw, d, ytp, modelType, env, returned) ==
    [ran |-> TRUE, top |-> top, calls |-> calls, guard |-> guard,
     line |-> line, threw |-> threw, series |-> d, target |-> ytp,
     model |-> modelType, fit |-> env.fit, clock |-> env.clock,
     returned |-> returned, by |-> "click", moved |-> FALSE]

\* mutant: the validation lets the year before MinYear through
YearRejectedBelow2023(ytp) == Lt(ParseInt(ytp), Num(MinYear - 1))

\* the validation of the year at the top of handleSimulation
YearRejected(ytp) == Lt(ParseInt(ytp), Num(MinYear))

\* the outcome of the catch block
Caught ==
    Outcome(Num(0), <<"Something went wrong. Please try again.">>,
            <<CalcErrorMsg>>)

\* handleSimulation after generatePredictionLine returned gen (or threw)
AfterLine(gen, ret, modelType, d, ytp, env, oldLine) ==
    IF gen.threw
    THEN [result |-> Caught, predictionLine |-> oldLine,
          log |-> RunLog(<<Call(modelType, ytp, d, env.clock, ret)>>,
                         {Call(modelType, ytp, d, env.clock, ret)}
                             \cup gen.calls,
                         TRUE, TRUE, TRUE, d, ytp, modelType, env, NoLine)]
    ELSE [result |-> Outcome(ret.prediction, <<ModelLine(modelType)>>, <<>>),
          predictionLine |-> [years |-> gen.years, temps |-> gen.temps],
          log |-> RunLog(<<Call(modelType, ytp, d, env.clock, ret)>>,
                         {Call(modelType, ytp, d, env.clock, ret)}
                             \cup gen.calls,
                         TRUE, TRUE, FALSE, d, ytp, modelType, env,
                         [years |-> gen.years, temps |-> gen.temps])]

\* handleSimulation after the selected model returned ret (or threw)
AfterModel(ret, modelType, d, ytp, env, oldLine) ==
    IF ret.threw
    THEN [result |-> Caught, predictionLine |-> oldLine,
          log |-> RunLog(<<Call(modelType, ytp, d, env.clock, ret)>>,
                         {Call(modelType, ytp, d, env.clock, ret)},
                         FALSE, FALSE, TRUE, d, ytp, modelType, env, NoLine)]
    ELSE IF OutOfRange(ret.prediction, d, ytp, env.clock)
    THEN [result |-> Outcome(Num(0), <<"Out of realistic range">>,
                             <<OutOfRangeMsg>>),
          predictionLine |-> oldLine,
          log |-> RunLog(<<Call(modelType, ytp, d, env.clock, ret)>>,
                         {Call(modelType, ytp, d, env.clock, ret)},
                         TRUE, FALSE, FALSE, d, ytp, modelType, env, NoLine)]
    ELSE AfterLine(generatePredictionLine(ret.prediction, modelType, d, ytp,
                                          env),
                   ret, modelType, d, ytp, env, oldLine)

\* handleSimulation on the state of the render it closes over: the outcome
\* it stores, the trend line the component holds afterwards, and its log
handleSimulation(modelType, d, ytp, env, oldLine) ==
    IF YearRejected(ytp)
    THEN [result |-> Outcome(Num(0), <<"Invalid year selected">>,
                             <<InvalidYearMsg>>),
          predictionLine |-> oldLine,
          log |-> RunLog(<<>>, {}, FALSE, FALSE, FALSE, d, ytp, modelType, env,
                         NoLine)]
    ELSE AfterModel(CallModel(modelType, ytp, d, env.fit, env.clock),
                    modelType, d, ytp, env, oldLine)

\* ------------------------------------------------------------------------
\* Environment: year inputs, repository answers, library answers
\* ------------------------------------------------------------------------

\* what the year input can hold: its initial value "2030", the empty string
\* of a cleared field, the year below 2024, the ends of [2024, 2100]; no
\* year here makes generatePredictionLine loop for ever
YearInputs ==
    {ToString(Num(y)) : y \in {2023, 2024, 2030, 2100}} \cup {<<>>}

\* the year strings the models are invoked with directly: also a year
\* above 2100 and one 15 or 16 years ahead
ModelYearInputs ==
    YearInputs \cup {ToString(Num(MaxYear + 1)),
                     ToString(Num(MinYear + maxConfidentYears + 1))}

Fits(poly, lin) == [polynomial |-> poly, linear |-> lin]

\* answer of the library for the bundled series: a poor quadratic fit
\* (raw R2 0.05) with a mild trend, a close linear fit with a steeper one
MockFits ==
    { Fits(PolyResult(Fin(0), Fin(20), Fin(25700), Fin(50), FALSE),
           LinearResult(Fin(50), Fin(26000), Fin(950), FALSE)) }

\* fit of no series (the component before mount)
NoFit ==
    Fits(PolyResult(NaN, NaN, NaN, NaN, FALSE), LinearResult(NaN, NaN, NaN, FALSE))

\* no run made yet
NoRun ==
    [ran |-> FALSE, top |-> <<>>, calls |-> {}, guard |-> FALSE,
     line |-> FALSE, threw |-> FALSE, series |-> <<>>, target |-> <<>>,
     model |-> "polynomial", fit |-> NoFit, clock |-> MinYear,
     returned |-> NoLine, by |-> "none", moved |-> FALSE]

\* rows the repository can return, each with the library's answer for it:
\* one record (the quadratic fit is degenerate, the linear fit throws),
\* six records up to 2025 with a steep trend
Rows(first, n, step) ==
    [i \in 1..n |-> Row(first + i - 1, 26000 + step * i + 50 * (i % 2),
                        26000 + step * i)]

FetchedRows ==
    { [rows |-> Rows(2022, 1, 0),
       fit  |-> Fits(PolyResult(NaN, NaN, NaN, NaN, FALSE),
                     LinearResult(NaN, NaN, NaN, TRUE))],
      [rows |-> Rows(2020, 6, 300),
       fit  |-> Fits(PolyResult(Fin(10), Fin(300), Fin(26300), Fin(980), FALSE),
                     LinearResult(Fin(300), Fin(26300), Fin(1000), FALSE))] }

\* the answers of the repository: an error object, a thrown exception,
\* no rows, or rows
FetchOutcomes ==
    { [kind |-> "error", rows |-> <<>>, fit |-> NoFit],
      [kind |-> "throw", rows |-> <<>>, fit |-> NoFit],
      [kind |-> "rows", rows |-> <<>>, fit |-> NoFit] }
    \cup { [kind |-> "rows", rows |-> r.rows, fit |-> r.fit] : r \in FetchedRows }

\* ------------------------------------------------------------------------
\* The component
\* ------------------------------------------------------------------------

Init ==
    /\ data = <<>>
    /\ selectedModel = "polynomial"
    /\ yearToPredict = ToString(Num(2030))
    /\ result = <<>>
    /\ loading = FALSE
    /\ predictionLine = NoLine
    /\ isLoading = TRUE
    /\ error = <<>>
    /\ userInitiated = FALSE
    /\ fetchState = "unmounted"
    /\ now = MinYear
    /\ fit = NoFit
    /\ lastRun = NoRun
    /\ invoked = <<>>
    /\ fetched = <<>>
    /\ drawn = <<>>

\* a run of handleSimulation with the given model on the given series
Store(run, by) ==
    /\ userInitiated' = TRUE
    /\ loading' = FALSE
    /\ result' = <<run.result>>
    /\ predictionLine' = run.predictionLine
    /\ lastRun' = [run.log EXCEPT
                      !.by = by,
                      !.moved = /\ by = "model"
                                /\ lastRun.target # run.log.target]

\* mutant: a run reads the year of the outcome in place, if there is one
SimulateOutcomeYear(modelType, d, f, by) ==
    Store(handleSimulation(modelType, d,
                           IF lastRun.ran THEN lastRun.target ELSE yearToPredict,
                           [fit |-> f, clock |-> now], predictionLine), by)

\* handleSimulation reads the year input of the render it closes over
Simulate(modelType, d, f, by) ==
    Store(handleSimulation(modelType, d, yearToPredict,
                           [fit |-> f, clock |-> now], predictionLine), by)

\* mutant: the effect on [data] does not ask for a user-initiated run
DataEffectUnasked(d, f) ==
    IF Len(d) > 0 /\ result = <<>>
    THEN Simulate(selectedModel, d, f, "data")
    ELSE UNCHANGED <<userInitiated, loading, result, predictionLine, lastRun>>

\* the effect on [data]: a run when the user asked for one and no outcome
\* exists yet
DataEffect(d, f) ==
    IF Len(d) > 0 /\ result = <<>> /\ userInitiated
    THEN Simulate(selectedModel, d, f, "data")
    ELSE UNCHANGED <<userInitiated, loading, result, predictionLine, lastRun>>

\* mount: the effects of the first render; fetchData runs up to its await
Mount ==
    /\ fetchState = "unmounted"
    /\ fetchState' = "pending"
    /\ isLoading' = TRUE
    /\ error' = <<>>
    /\ data' = mockTemperatureData
    /\ \E f \in MockFits : fit' = f /\ DataEffect(mockTemperatureData, f)
    /\ UNCHANGED <<selectedModel, yearToPredict, now, invoked, fetched, drawn>>

\* mutant: rows replace the series whatever their number
RowsAcceptedAnyLength(o) == o.kind = "rows"

\* TRUE when fetchData replaces the series by the rows it got
RowsAccepted(o) == o.kind = "rows" /\ Len(o.rows) > 0

\* mutant: the loading flag is cleared only when rows replaced the series
FetchResolveKeepsLoading(o) ==
    /\ fetchState = "pending"
    /\ fetchState' = "done"
    /\ isLoading' = ~RowsAccepted(o)
    /\ IF RowsAccepted(o)
       THEN /\ data' = o.rows
            /\ fit' = o.fit
            /\ DataEffect(o.rows, o.fit)
       ELSE UNCHANGED <<data, fit, userInitiated, loading, result,
                        predictionLine, lastRun>>
    /\ fetched' = <<o>>
    /\ UNCHANGED <<selectedModel, yearToPredict, error, now, invoked, drawn>>

\* fetchData from its await on
FetchResolve(o) ==
    /\ fetchState = "pending"
    /\ fetchState' = "done"
    /\ isLoading' = FALSE
    /\ IF RowsAccepted(o)
       THEN /\ data' = o.rows
            /\ fit' = o.fit
            /\ DataEffect(o.rows, o.fit)
       ELSE UNCHANGED <<data, fit, userInitiated, loading, result,
                        predictionLine, lastRun>>
    /\ fetched' = <<o>>
    /\ UNCHANGED <<selectedModel, yearToPredict, error, now, invoked, drawn>>

\* onChange of the year input
SetYear(s) ==
    /\ fetchState # "unmounted"
    /\ yearToPredict' = s
    /\ UNCHANGED <<data, selectedModel, result, loading, predictionLine,
                   isLoading, error, userInitiated, fetchState, now, fit,
                   lastRun, invoked, fetched, drawn>>

\* onChange of the model selector, with the effect on [selectedModel]
SelectModel(m) ==
    /\ fetchState # "unmounted"
    /\ m # selectedModel
    /\ selectedModel' = m
    /\ IF Len(data) > 0 /\ result # <<>> /\ userInitiated
       THEN Simulate(m, data, fit, "model")
       ELSE UNCHANGED <<userInitiated, loading, result, predictionLine, lastRun>>
    /\ UNCHANGED <<data, yearToPredict, isLoading, error, fetchState, now, fit,
                   invoked, fetched, drawn>>

\* onClick of the run button (disabled while loading)
ClickRun ==
    /\ fetchState # "unmounted"
    /\ ~loading
    /\ Simulate(selectedModel, data, fit, "click")
    /\ UNCHANGED <<data, selectedModel, yearToPredict, isLoading, error,
                   fetchState, now, fit, invoked, fetched, drawn>>

\* the calendar year changes while the page is open
Tick ==
    /\ fetchState # "unmounted"
    /\ now < MaxNow
    /\ now' = now + 1
    /\ UNCHANGED <<data, selectedModel, yearToPredict, result, loading,
                   predictionLine, isLoading, error, userInitiated, fetchState,
                   fit, lastRun, invoked, fetched, drawn>>

Next ==
    \/ Mount
    \/ \E o \in FetchOutcomes : FetchResolve(o)
    \/ \E s \in YearInputs : SetYear(s)
    \/ \E m \in ModelType : SelectModel(m)
    \/ ClickRun
    \/ Tick

Spec == Init /\ [][Next]_vars

\* ------------------------------------------------------------------------
\* chartData: the label axis and the "Prediction Trend" dataset; a null
\* entry is <<>>, a value x is <<x>>
\* ------------------------------------------------------------------------

\* data.filter((_, index) => index % 10 === 0)
EveryTenth(d) == [j \in 1..((Len(d) + 9) \div 10) |-> d[10 * (j - 1) + 1]]

\* xs.slice(1)
SliceFrom1(xs) == IF xs = <<>> THEN <<>> ELSE Tail(xs)

chartLabels ==
    [j \in 1..Len(EveryTenth(data)) |-> EveryTenth(data)[j].year]
    \o (IF userInitiated THEN SliceFrom1(predictionLine.years) ELSE <<>>)

\* the data of the "Prediction Trend" dataset (present when userInitiated)
chartTrend ==
    IF Len(data) > 0 /\ Len(predictionLine.years) > 0
    THEN [j \in 1..(Len(EveryTenth(data)) - 1) |-> <<>>]
         \o << <<data[Len(data)].five_year_smooth>> >>
         \o [j \in 1..Len(SliceFrom1(predictionLine.temps)) |->
                <<SliceFrom1(predictionLine.temps)[j]>>]
    ELSE <<>>

\* ------------------------------------------------------------------------
\* The prediction models as functions: a series and the library's answer
\* for it are drawn at the start, then the models are invoked directly,
\* with any year string, while the calendar year advances
\* ------------------------------------------------------------------------

\* three records with exact fits
ShortSeries ==
    [rows |-> Rows(2020, 3, 100),
     fit  |-> Fits(PolyResult(Fin(0), Fin(100), Fin(26100), Fin(1000), FALSE),
                   LinearResult(Fin(100), Fin(26100), Fin(1000), FALSE))]

\* thirty records of constant five-year smooth 26.0: every fit is the
\* constant 26.0, its R2 is 0/0
ConstantSeries ==
    [rows |-> Rows(1993, 30, 0),
     fit  |-> Fits(PolyResult(Fin(0), Fin(0), Fin(26000), NaN, FALSE),
                   LinearResult(Fin(0), Fin(26000), NaN, FALSE))]

\* five records 2017..2021 with five-year smooth 25.0, 25.1, ..., 25.4
RisingSeries ==
    [rows |-> [i \in 1..5 |-> Row(2016 + i, 24900 + 100 * i, 24900 + 100 * i)],
     fit  |-> Fits(PolyResult(Fin(0), Fin(100), Fin(25000), Fin(1000), FALSE),
                   LinearResult(Fin(100), Fin(25000), Fin(1000), FALSE))]

\* the series a model can be handed: the bundled one or fetched rows
SeriesInputs ==
    { [rows |-> mockTemperatureData, fit |-> f] : f \in MockFits }
    \cup FetchedRows \cup {ShortSeries, ConstantSeries, RisingSeries}

InitModels ==
    /\ \E o \in SeriesInputs : data = o.rows /\ fit = o.fit
    /\ selectedModel = "polynomial"
    /\ yearToPredict = ToString(Num(2030))
    /\ result = <<>>
    /\ loading = FALSE
    /\ predictionLine = NoLine
    /\ isLoading = FALSE
    /\ error = <<>>
    /\ userInitiated = FALSE
    /\ fetchState = "done"
    /\ now = MinYear
    /\ lastRun = NoRun
    /\ invoked = <<>>
    /\ fetched = <<>>
    /\ drawn = <<>>

\* one direct invocation of a model; the one before it is kept
Invoke(modelType, targetYear) ==
    /\ invoked' = <<Call(modelType, targetYear, data, now,
                         CallModel(modelType, targetYear, data, fit, now))>>
                  \o (IF invoked = <<>> THEN <<>> ELSE <<invoked[1]>>)
    /\ UNCHANGED <<data, selectedModel, yearToPredict, result, loading,
                   predictionLine, isLoading, error, userInitiated, fetchState,
                   now, fit, lastRun, fetched, drawn>>

NextModels ==
    \/ \E m \in ModelType, y \in ModelYearInputs : Invoke(m, y)
    \/ Tick

SpecModels == InitModels /\ [][NextModels]_vars

\* ------------------------------------------------------------------------
\* generatePredictionLine as a function: a series (or none) and the
\* library's answer for it are drawn at the start, then the generator is
\* called directly with the prediction of the model for any year string
\* ------------------------------------------------------------------------

\* a year of more digits than the largest finite number has
HugeYear == [i \in 1..(MaxDoubleDigits + 1) |-> "9"]

\* the year strings the generator is called with: those of the models, a
\* year before the end of every series, and the huge one
LineYearInputs == ModelYearInputs \cup {ToString(Num(1990)), HugeYear}

InitLine ==
    /\ \E o \in SeriesInputs \cup {[rows |-> <<>>, fit |-> NoFit]} :
           data = o.rows /\ fit = o.fit
    /\ selectedModel = "polynomial"
    /\ yearToPredict = ToString(Num(2030))
    /\ result = <<>>
    /\ loading = FALSE
    /\ predictionLine = NoLine
    /\ isLoading = FALSE
    /\ error = <<>>
    /\ userInitiated = FALSE
    /\ fetchState = "done"
    /\ now = MinYear
    /\ lastRun = NoRun
    /\ invoked = <<>>
    /\ fetched = <<>>
    /\ drawn = <<>>

\* what a direct call of generatePredictionLine did
Drawing(modelType, targetYear, d, gen) ==
    [model |-> modelType, year |-> ParseInt(targetYear), len |-> Len(d),
     last |-> IF Len(d) = 0 THEN NaN ELSE ParseInt(d[Len(d)].year),
     years |-> gen.years, temps |-> gen.temps, threw |-> gen.threw,
     hangs |-> gen.hangs]

\* one direct call of generatePredictionLine, with the prediction the
\* model returned for the target year
Draw(modelType, targetYear) ==
    /\ ~CallModel(modelType, targetYear, data, fit, now).threw
    /\ drawn' = <<Drawing(modelType, targetYear, data,
                          generatePredictionLine(
                              CallModel(modelType, targetYear, data, fit,
                                        now).prediction,
                              modelType, data, targetYear,
                              [fit |-> fit, clock |-> now]))>>
    /\ UNCHANGED <<data, selectedModel, yearToPredict, result, loading,
                   predictionLine, isLoading, error, userInitiated, fetchState,
                   now, fit, lastRun, invoked, fetched>>

NextLine ==
    \/ \E m \in ModelType, y \in LineYearInputs : Draw(m, y)
    \/ Tick

SpecLine == InitLine /\ [][NextLine]_vars

\* ------------------------------------------------------------------------
\* Properties
\* ------------------------------------------------------------------------

HasOutcome == result # <<>>

Rejected == HasOutcome /\ result[1].error # <<>>

Accepted == HasOutcome /\ result[1].error = <<>>

\* the envelope of the plausibility guard for the latest run
EnvelopeMin ==
    Sub(MinOf(AnnualMeans(lastRun.series)), Margin(lastRun.target, lastRun.clock))

EnvelopeMax ==
    Add(MaxOf(AnnualMeans(lastRun.series)), Margin(lastRun.target, lastRun.clock))

\* C1: every model invocation of a run (by handleSimulation or by the
\* trend-line generation it triggers) has a numeric target year inside
\* [2024, 2100].
C1_ModelYearsWithinRange ==
    \A c \in lastRun.calls :
        IsFin(c.year) /\ Le(Num(MinYear), c.year) /\ Le(c.year, Num(MaxYear))

\* C2: a stored outcome without error carries a defined prediction inside
\* [minTemp - margin, maxTemp + margin] of the series and year it was
\* computed for.
C2_AcceptedPredictionInEnvelope ==
    Accepted =>
        /\ IsFin(result[1].prediction)
        /\ Le(EnvelopeMin, result[1].prediction)
        /\ Le(result[1].prediction, EnvelopeMax)

\* C3: whenever the current outcome is a rejection the stored trend line is
\* empty.
C3_RejectionLeavesNoTrendLine == Rejected => predictionLine = NoLine

\* the raw R2 the library returned for the model is a number in [0, 1]
\* (the moving average uses no library fit)
RawR2InUnit(f, modelType) ==
    \/ modelType = "moving-average"
    \/ /\ modelType = "polynomial"
       /\ Le(Num(0), f.polynomial.r2) /\ Le(f.polynomial.r2, Num(1))
    \/ /\ modelType = "linear"
       /\ Le(Num(0), f.linear.r2) /\ Le(f.linear.r2, Num(1))

\* C4: for a non-empty series, a target year >= 2024 and a raw R2 in [0, 1],
\* the confidence (r2) every model returns is a defined number in [0, 1].
C4_ConfidenceInUnitInterval ==
    \A c \in lastRun.calls :
        (c.len > 0 /\ Le(Num(MinYear), c.year)
                   /\ RawR2InUnit(lastRun.fit, c.model))
        => (IsFin(c.r2) /\ Le(Num(0), c.r2) /\ Le(c.r2, Num(1)))

\* the latest run was accepted: the trend-line generator ran and returned
GeneratorReturned == lastRun.line /\ ~lastRun.threw /\ Len(lastRun.series) > 0

\* C5: the trend line generatePredictionLine returns for an accepted run has
\* as many years as temperatures, starts at the last historical year of the
\* series and ends at the target year; it is the trend line stored.
C5_TrendLineEndpoints ==
    GeneratorReturned =>
        LET l == lastRun.returned IN
        /\ Len(l.years) = Len(l.temps)
        /\ Len(l.years) >= 2
        /\ l.years[1] = lastRun.series[Len(lastRun.series)].year
        /\ l.years[Len(l.years)] = ToString(ParseInt(lastRun.target))
        /\ Accepted /\ predictionLine = l

\* an accepted run whose loop stopped short of the target year, for each
\* model kind in turn
C5_Witness ==
    /\ GeneratorReturned
    /\ lastRun.target = ToString(Num(MaxYear))
    /\ Len(lastRun.returned.years) = 6

\* two direct invocations of the same model on the same series with the same
\* target year
SameInputs ==
    /\ Len(invoked) = 2
    /\ invoked[1].model = invoked[2].model
    /\ invoked[1].year = invoked[2].year
    /\ invoked[1].len = invoked[2].len

\* C6 (as claimed): the same model invoked twice with the same series and
\* target year returns the same prediction, whatever the calendar year.
C6_SameInputsSamePrediction ==
    SameInputs => invoked[1].prediction = invoked[2].prediction

\* C6 (amended): the same model invoked twice with the same series and
\* target year returns the same prediction, provided, for the polynomial
\* model, that the calendar year is the same; the linear and moving-average
\* predictions do not depend on the calendar year.
C6_SamePredictionUpToClock ==
    (SameInputs /\ (invoked[1].model = "polynomial"
                        => invoked[1].clock = invoked[2].clock))
    => invoked[1].prediction = invoked[2].prediction

\* the moving average invoked in two different calendar years
C6_Witness ==
    /\ SameInputs
    /\ invoked[1].model = "moving-average"
    /\ invoked[1].clock # invoked[2].clock
    /\ IsFin(invoked[1].prediction)

\* C7: a run with a target year below 2024 stores the rejection "Please
\* select a year from 2024 onwards for predictions." with prediction 0 and
\* invokes no model, no guard and no trend-line generation.
C7_EarlyYearRejectedAtOnce ==
    (lastRun.ran /\ Lt(ParseInt(lastRun.target), Num(MinYear))) =>
        /\ HasOutcome
        /\ result[1].error = <<InvalidYearMsg>>
        /\ result[1].prediction = Num(0)
        /\ lastRun.calls = {}
        /\ ~lastRun.guard
        /\ ~lastRun.line

\* a run on the year 2023
C7_Witness ==
    /\ lastRun.ran
    /\ lastRun.target = ToString(Num(MinYear - 1))
    /\ Rejected

\* the fit the latest run used yields no defined value
DegenerateFit ==
    /\ lastRun.top # <<>>
    /\ ~lastRun.threw
    /\ \/ lastRun.model = "polynomial"
          /\ \E i \in 1..3 : IsNaN(lastRun.fit.polynomial.equation[i])
       \/ lastRun.model = "linear"
          /\ \E i \in 1..2 : IsNaN(lastRun.fit.linear.equation[i])

\* the candidate prediction of the latest run failed the guard
GuardFailed ==
    /\ lastRun.guard
    /\ \/ Lt(lastRun.top[1].prediction, EnvelopeMin)
       \/ Gt(lastRun.top[1].prediction, EnvelopeMax)

\* C8: a run in which an error kind occurs (invalid year, degenerate fit,
\* out of range, thrown fault) ends with a stored outcome carrying an error
\* message and prediction 0; a thrown fault gives "Calculation error
\* occurred".
C8_ErrorKindsSurfaceAsErrors ==
    /\ (lastRun.ran /\ (YearRejected(lastRun.target) \/ DegenerateFit
                          \/ GuardFailed \/ lastRun.threw))
       => (Rejected /\ result[1].prediction = Num(0))
    /\ lastRun.threw => (HasOutcome /\ result[1].error = <<CalcErrorMsg>>)

\* C9: the component holds a non-empty series from mount on, and every
\* model invocation of a run reads a non-empty series.
C9_ModelsReadNonEmptySeries ==
    /\ fetchState # "unmounted" => Len(data) > 0
    /\ \A c \in lastRun.calls : c.len > 0

\* a model ran on the bundled series after the fetch gave no rows
C9_Witness ==
    /\ fetchState = "done"
    /\ data = mockTemperatureData
    /\ lastRun.calls # {}
    /\ lastRun.series = mockTemperatureData

\* C10: a run only exists once the fetch has settled, and the series the
\* latest run used is the series the component holds.
C10_NoRunBeforeFetchSettles ==
    lastRun.ran => (fetchState = "done" /\ lastRun.series = data)

\* the effect on [selectedModel] fires in this step
ModelEffectFires ==
    /\ selectedModel' # selectedModel
    /\ Len(data) > 0 /\ result # <<>> /\ userInitiated

\* C11 (as claimed): a run triggered by a model switch uses the newly
\* selected model and the target year of the outcome that was in place.
C11_ReRunKeepsOutcomeYear ==
    lastRun.by = "model" => (lastRun.model = selectedModel /\ ~lastRun.moved)

\* C11 (amended): when an outcome exists and a run has been user-initiated,
\* changing the selected model re-runs the simulation at once with the newly
\* selected model, on the series held, and with the current value of the
\* year input, which is the year of the existing outcome only if the input
\* was not edited since.
C11_ReRunUsesYearInput ==
    [][ModelEffectFires =>
          /\ lastRun'.by = "model"
          /\ lastRun'.model = selectedModel'
          /\ lastRun'.target = yearToPredict
          /\ lastRun'.series = data
          /\ lastRun'.moved = (lastRun.target # yearToPredict)
          /\ result' # <<>>]_vars

\* a re-run by model switch after the year input was edited
C11_Witness ==
    /\ lastRun.by = "model"
    /\ lastRun.moved
    /\ lastRun.model = selectedModel

\* this step is a run the user triggered with the run button
UserRun == lastRun' # lastRun /\ lastRun'.by = "click"

\* nothing was ever run: no outcome, no trend line, no model invocation
NothingRan ==
    /\ ~userInitiated
    /\ result = <<>>
    /\ predictionLine = NoLine
    /\ ~lastRun.ran
    /\ lastRun.calls = {}

\* C12: as long as no run was user-triggered, whatever model switches, year
\* edits and fetch completions happen, the outcome stays absent, the trend
\* line stays empty and no model is invoked: a step other than a run by the
\* run button leaves a component in which nothing ran as it is.
C12_NoRunWithoutUser ==
    [][(~userInitiated /\ ~UserRun) => (NothingRan /\ NothingRan')]_vars

\* no run yet, after the fetch brought rows, a model switch and a year edit
C12_Witness ==
    /\ ~userInitiated
    /\ fetchState = "done"
    /\ data # mockTemperatureData
    /\ selectedModel # "polynomial"
    /\ yearToPredict # ToString(Num(2030))

\* the candidate prediction of the latest run lies in the envelope
InEnvelope ==
    /\ Le(EnvelopeMin, lastRun.top[1].prediction)
    /\ Le(lastRun.top[1].prediction, EnvelopeMax)

\* C13: the plausibility guard lets a candidate prediction through to the
\* trend-line generation if and only if minTemp - margin <= prediction <=
\* maxTemp + margin; otherwise the outcome is the rejection "Prediction
\* falls outside realistic range." and no trend line is generated.
C13_GuardAcceptsIffInEnvelope ==
    lastRun.guard =>
        /\ lastRun.line <=> InEnvelope
        /\ ~lastRun.line => (HasOutcome /\ result[1].error = <<OutOfRangeMsg>>)

\* yearsIntoFuture of a model invocation
YearsAhead(c) == Sub(c.year, Num(c.clock))

\* the invocation went through the confidence decay of the polynomial or
\* linear model
Decayed(c) ==
    /\ c.len > 0
    /\ \/ c.model = "polynomial" /\ ~fit.polynomial.throws
       \/ c.model = "linear" /\ ~fit.linear.throws

\* the R2 of the model before the decay: adjusted for the polynomial model,
\* raw for the linear model
UndecayedR2(c) ==
    IF c.model = "polynomial"
    THEN AdjustedR2(fit.polynomial.r2, Len(SliceLast(data, 30)))
    ELSE fit.linear.r2

MultiplierInRange(m, ahead) ==
    /\ IsFin(m) /\ Le(Fin(250), m) /\ Le(m, Num(1))
    /\ Le(ahead, Num(maxConfidentYears)) => m = Num(1)
    /\ ahead = Num(maxPredictionYears) => m = Fin(250)

\* C14: in the polynomial and the linear model the confidence multiplier is
\* 1 up to 15 years ahead (the confidence returned is the undecayed R2),
\* 0.25 at 76 years ahead, within [0.25, 1] always, and does not increase
\* with the years ahead; the confidence returned is the undecayed R2 times
\* the multiplier.
C14_ConfidenceDecay ==
    /\ \A i \in 1..Len(invoked) :
          Decayed(invoked[i]) =>
            /\ MultiplierInRange(ConfidenceMultiplier(YearsAhead(invoked[i])),
                                 YearsAhead(invoked[i]))
            /\ invoked[i].r2 =
                  Mul(UndecayedR2(invoked[i]),
                      ConfidenceMultiplier(YearsAhead(invoked[i])))
            /\ Le(YearsAhead(invoked[i]), Num(maxConfidentYears))
                  => invoked[i].r2 = UndecayedR2(invoked[i])
    /\ \A i, j \in 1..Len(invoked) :
          (Decayed(invoked[i]) /\ Decayed(invoked[j])
             /\ Le(YearsAhead(invoked[i]), YearsAhead(invoked[j])))
          => Le(ConfidenceMultiplier(YearsAhead(invoked[j])),
                ConfidenceMultiplier(YearsAhead(invoked[i])))

\* the linear model invoked 76 years ahead after 16 years ahead
C14_Witness ==
    /\ Len(invoked) = 2
    /\ Decayed(invoked[1]) /\ Decayed(invoked[2])
    /\ invoked[1].model = "linear" /\ invoked[2].model = "linear"
    /\ YearsAhead(invoked[1]) = Num(maxPredictionYears)
    /\ YearsAhead(invoked[2]) = Num(maxConfidentYears + 1)
    /\ IsFin(invoked[1].r2)
    /\ Lt(invoked[1].r2, invoked[2].r2)

\* C15: on the series of 30 records of constant five-year smooth 26.0 every
\* model returns the prediction 26.0 for every target year >= 2024,
\* whatever the calendar year.
C15_ConstantSeriesPredicts26 ==
    data = ConstantSeries.rows =>
        \A i \in 1..Len(invoked) :
            Le(Num(MinYear), invoked[i].year)
                => invoked[i].prediction = Fin(26000)

\* avgTemp + yearlyChange * yearsAhead, from the last five records
MovingAverageFormula(d, year) ==
    Add(Div(SumTo([i \in 1..Len(SliceLast(d, 5)) |->
                      SliceLast(d, 5)[i].five_year_smooth],
                  Len(SliceLast(d, 5))),
            Num(Len(SliceLast(d, 5)))),
        Mul(Div(Sub(d[Len(d)].five_year_smooth,
                    SliceLast(d, 5)[1].five_year_smooth),
                Num(4)),
            Sub(year, ParseInt(d[Len(d)].year))))

\* C16: on a non-empty series calculateMovingAverage returns the mean of the
\* five-year smooth of the last five records plus a quarter of their rise
\* times (target year - last historical year); the smooth values 25.0 ..
\* 25.4 and three years ahead give 25.5.
C16_MovingAverageProjection ==
    \A i \in 1..Len(invoked) :
        (invoked[i].model = "moving-average" /\ invoked[i].len > 0) =>
            /\ invoked[i].prediction = MovingAverageFormula(data, invoked[i].year)
            /\ (data = RisingSeries.rows /\ invoked[i].year = Num(MinYear))
                  => invoked[i].prediction = Fin(25500)

\* the moving average of the series 25.0 .. 25.4 (last year 2021) for 2024
C16_Witness ==
    /\ data = RisingSeries.rows
    /\ Len(invoked) > 0
    /\ invoked[1].model = "moving-average"
    /\ invoked[1].year = Num(MinYear)
    /\ invoked[1].prediction = Fin(25500)

\* C17: once fetchData has completed the loading flag is cleared, and the
\* series held is the fetched one if and only if the repository returned a
\* non-empty result without error; after an error, a thrown exception or an
\* empty result it is the bundled dataset.
C17_FetchOutcomeCollapsed ==
    fetched # <<>> =>
        /\ fetchState = "done"
        /\ isLoading = FALSE
        /\ IF fetched[1].kind = "rows" /\ Len(fetched[1].rows) > 0
           THEN data = fetched[1].rows /\ data # mockTemperatureData
           ELSE data = mockTemperatureData

\* the repository call threw and the bundled dataset is held
C17_Witness ==
    /\ fetched # <<>>
    /\ fetched[1].kind = "throw"
    /\ data = mockTemperatureData
    /\ ~isLoading

\* index of the junction in the "Prediction Trend" dataset
Junction == Len(EveryTenth(data))

\* C18: whenever a run has been initiated and the trend line is non-empty,
\* the "Prediction Trend" dataset is as long as the label axis, is null
\* before the junction, holds the junction value at the label of the last
\* historical year and each trend point at the label of its own year.
C18_TrendAlignedWithLabels ==
    (userInitiated /\ predictionLine # NoLine /\ Len(data) > 0) =>
        /\ Len(chartTrend) = Len(chartLabels)
        /\ \A i \in 1..(Junction - 1) : chartTrend[i] = <<>>
        /\ chartTrend[Junction] # <<>>
        /\ chartLabels[Junction] = data[Len(data)].year
        /\ \A j \in 2..Len(predictionLine.years) :
              /\ chartLabels[Junction + j - 1] = predictionLine.years[j]
              /\ chartTrend[Junction + j - 1] = <<predictionLine.temps[j]>>

\* C19: for every accepted run the last point of the trend line returned by
\* generatePredictionLine is (target year, final prediction), whether the
\* loop lands on the target year, stops short of it or is skipped.
C19_LastPointIsPrediction ==
    GeneratorReturned =>
        /\ lastRun.returned.years[Len(lastRun.returned.years)]
              = ToString(ParseInt(lastRun.target))
        /\ lastRun.returned.temps[Len(lastRun.returned.temps)]
              = lastRun.top[1].prediction
        /\ result[1].prediction = lastRun.top[1].prediction

\* an accepted run on the bundled series whose loop lands on the target 2030
C19_Witness ==
    /\ GeneratorReturned
    /\ lastRun.series = mockTemperatureData
    /\ lastRun.target = ToString(Num(2030))
    /\ Len(lastRun.returned.years) = 5
    /\ IsFin(lastRun.top[1].prediction)

\* C20: for every invocation of the polynomial model with a target year >=
\* 2024, intermediate trend-line years included, the dampening factor is a
\* defined number in [0.2, 1].
C20_DampeningInRange ==
    \A c \in lastRun.calls :
        (c.model = "polynomial" /\ Le(Num(MinYear), c.year)) =>
            /\ IsFin(DampeningFactor(YearsAhead(c)))
            /\ Le(Fin(200), DampeningFactor(YearsAhead(c)))
            /\ Le(DampeningFactor(YearsAhead(c)), Num(1))

\* the five-year smooth values of the last five records are all equal
FlatTail(d) ==
    \A i \in 1..Len(SliceLast(d, 5)) :
        SliceLast(d, 5)[i].five_year_smooth = SliceLast(d, 5)[1].five_year_smooth

\* C21: on a series whose last five five-year smooth values are all equal
\* (SS_total = 0) calculateMovingAverage returns the confidence 0.
C21_FlatSeriesConfidenceZero ==
    \A i \in 1..Len(invoked) :
        (invoked[i].model = "moving-average" /\ invoked[i].len > 0
            /\ FlatTail(data))
        => invoked[i].r2 = Num(0)

\* C22: for a fixed series calculateMovingAverage returns the same
\* confidence for every target year and every calendar year, whereas the
\* polynomial and linear confidences are the undecayed R2 times the decay
\* multiplier of the years ahead.
C22_MovingAverageConfidenceLocal ==
    /\ \A i, j \in 1..Len(invoked) :
          (invoked[i].model = "moving-average"
             /\ invoked[j].model = "moving-average")
          => invoked[i].r2 = invoked[j].r2
    /\ \A i \in 1..Len(invoked) :
          (Decayed(invoked[i]) /\ invoked[i].model # "moving-average")
          => invoked[i].r2 = Mul(UndecayedR2(invoked[i]),
                                 ConfidenceMultiplier(YearsAhead(invoked[i])))

\* the moving average invoked for 2100 in one year and for 2030 in the next
C22_Witness ==
    /\ Len(invoked) = 2
    /\ invoked[1].model = "moving-average"
    /\ invoked[2].model = "moving-average"
    /\ invoked[1].year = Num(2030) /\ invoked[2].year = Num(MaxYear)
    /\ invoked[1].clock # invoked[2].clock
    /\ IsFin(invoked[1].r2) /\ Gt(invoked[1].r2, Num(0))

\* C23: whenever the stored trend line is non-empty its first point is the
\* last record (year and five-year smooth) of the series currently held.
C23_TrendLineStartsAtHeldSeries ==
    predictionLine # NoLine =>
        /\ Len(data) > 0
        /\ predictionLine.years[1] = data[Len(data)].year
        /\ predictionLine.temps[1] = data[Len(data)].five_year_smooth

\* C24: generatePredictionLine terminates for every last historical year
\* and every target year; for a non-empty series it returns between 2 and
\* 6 points, for an empty series it returns no points.
C24_LineTerminatesWithin2To6Points ==
    \A i \in 1..Len(drawn) :
        /\ ~drawn[i].hangs
        /\ (drawn[i].len = 0 /\ ~drawn[i].threw) => drawn[i].years = <<>>
        /\ (drawn[i].len > 0 /\ ~drawn[i].threw)
              => /\ Len(drawn[i].years) \in 2..(numPoints + 1)
                 /\ Len(drawn[i].temps) = Len(drawn[i].years)

=============================================================================
